---- MODULE Spec2Model ----
(***************************************************************************)
(* Motion detection and viewport tracking (src/src/motion_detector.py,     *)
(* src/src/viewport_tracker.py) as a state machine.  A call stores its      *)
(* arguments in args, runs, and leaves its result in ret.                   *)
(***************************************************************************)
EXTENDS Integers, Sequences, FiniteSets

VARIABLES pc, args, ret, i, prev_x, prev_y, viewport_positions

vars == <<pc, args, ret, i, prev_x, prev_y, viewport_positions>>

(***************************************************************************)
(* Bounds of the model.                                                    *)
(***************************************************************************)
MaxDim == 6             \* small frames are MinDim..MaxDim pixels wide and high
MaxFrames == 2          \* longest frame list with an arbitrary box set per frame
MaxConstFrames == 6     \* longest frame list with the same box set in every frame
MaxCoord == 1           \* box corners of the aggregator calls are 0..MaxCoord
MaxSide == 2            \* box sides of the aggregator calls are 0..MaxSide

MinDim == 5             \* smallest frame side

(***************************************************************************)
(* Python numerics.                                                        *)
(***************************************************************************)
Abs(n) == IF n < 0 THEN -n ELSE n

Min2(a, b) == IF a < b THEN a ELSE b

Max2(a, b) == IF a > b THEN a ELSE b

\* int(a / b) for integers a and b > 0: the quotient truncated toward zero.
\* (a / b is correctly rounded and a, b are far below 2^26, so the rounded
\* quotient never reaches the next integer.)
TruncDiv(a, b) == IF a >= 0 THEN a \div b ELSE -((-a) \div b)

RECURSIVE BitLen(_)
BitLen(n) == IF n = 0 THEN 0 ELSE 1 + BitLen(n \div 2)

RECURSIVE Pow2(_)
Pow2(n) == IF n = 0 THEN 1 ELSE 2 * Pow2(n - 1)

(***************************************************************************)
(* IEEE-754 binary64 arithmetic, as far as the smoothing step needs it.    *)
(* A magnitude is <<n, a, b, c>> = n + a/2^18 + b/2^36 + c/2^54 with       *)
(* 0 <= a, b, c < 2^18; a double is a sign and a magnitude.  Every double  *)
(* met here is a multiple of 2^-54 below 2^10, so the representation is    *)
(* exact and only rounding to 53 significant bits has to be applied.       *)
(***************************************************************************)
\* 2^18
Limb == 512 * 512

Norm(v) ==
    LET c1 == v[4]
        b1 == v[3] + (c1 \div Limb)
        a1 == v[2] + (b1 \div Limb)
        n1 == v[1] + (a1 \div Limb)
    IN  <<n1, a1 % Limb, b1 % Limb, c1 % Limb>>

\* round-to-nearest, ties-to-even, to 53 significant bits
RoundMag(v) ==
    LET len == IF v[1] > 0 THEN 54 + BitLen(v[1]) ELSE 36 + BitLen(v[2])
        sh == IF len > 53 THEN len - 53 ELSE 0
        p == Pow2(sh)
        rem == v[4] % p
        odd == (v[4] \div p) % 2 = 1
        up == 2 * rem > p \/ (2 * rem = p /\ odd)
    IN  IF sh = 0 THEN v
        ELSE Norm(<<v[1], v[2], v[3], v[4] - rem + (IF up THEN p ELSE 0)>>)

MagIsZero(v) == v = <<0, 0, 0, 0>>

\* float(k) * d for an integer k >= 0
FMulInt(k, d) ==
    LET m == RoundMag(Norm(<<k * d.mag[1], k * d.mag[2], k * d.mag[3], k * d.mag[4]>>))
    IN  [neg |-> d.neg /\ ~MagIsZero(m), mag |-> m]

FNeg(d) == [neg |-> ~d.neg /\ ~MagIsZero(d.mag), mag |-> d.mag]

FAdd(u, v) ==
    IF u.neg = v.neg
    THEN [neg |-> u.neg,
          mag |-> RoundMag(Norm(<<u.mag[1] + v.mag[1], u.mag[2] + v.mag[2],
                                  u.mag[3] + v.mag[3], u.mag[4] + v.mag[4]>>))]
    ELSE LET d == Norm(<<u.mag[1] - v.mag[1], u.mag[2] - v.mag[2],
                         u.mag[3] - v.mag[3], u.mag[4] - v.mag[4]>>)
             e == Norm(<<v.mag[1] - u.mag[1], v.mag[2] - u.mag[2],
                         v.mag[3] - u.mag[3], v.mag[4] - u.mag[4]>>)
         IN  IF d[1] >= 0
             THEN [neg |-> u.neg /\ ~MagIsZero(d), mag |-> RoundMag(d)]
             ELSE [neg |-> v.neg, mag |-> RoundMag(e)]

FOne == [neg |-> FALSE, mag |-> <<1, 0, 0, 0>>]

\* int(d): truncation toward zero
FInt(d) == IF d.neg THEN -d.mag[1] ELSE d.mag[1]

(***************************************************************************)
(* Smoothing factors: the decimal literal num/den and the double it        *)
(* denotes.  0.3 is the default of track_viewport and is not dyadic; its   *)
(* double is 0x3FD3333333333333 = 5404319552844595 / 2^54.                 *)
(***************************************************************************)
F03 == [num |-> 3, den |-> 10, neg |-> FALSE, mag |-> <<0, 78643, 52428, 209715>>]

F05 == [num |-> 1, den |-> 2, neg |-> FALSE, mag |-> <<0, 131072, 0, 0>>]

F10 == [num |-> 1, den |-> 1, neg |-> FALSE, mag |-> <<1, 0, 0, 0>>]

F00 == [num |-> 0, den |-> 1, neg |-> FALSE, mag |-> <<0, 0, 0, 0>>]

F15 == [num |-> 3, den |-> 2, neg |-> FALSE, mag |-> <<1, 131072, 0, 0>>]

FNegHalf == [num |-> -1, den |-> 2, neg |-> TRUE, mag |-> <<0, 131072, 0, 0>>]

SmoothingFactors == {F03, F05, F10, F00, F15, FNegHalf}

(***************************************************************************)
(* calculate_region_of_interest.  A box is <<x, y, w, h>>, a frame shape   *)
(* is <<height, width>>.                                                   *)
(***************************************************************************)
Area(box) == box[3] * box[4]

CenterX(box) == box[1] + box[3] \div 2

CenterY(box) == box[2] + box[4] \div 2

RECURSIVE TotalArea(_)
TotalArea(boxes) ==
    IF boxes = <<>> THEN 0 ELSE Area(Head(boxes)) + TotalArea(Tail(boxes))

RECURSIVE WeightedX(_)
WeightedX(boxes) ==
    IF boxes = <<>> THEN 0
    ELSE CenterX(Head(boxes)) * Area(Head(boxes)) + WeightedX(Tail(boxes))

RECURSIVE WeightedY(_)
WeightedY(boxes) ==
    IF boxes = <<>> THEN 0
    ELSE CenterY(Head(boxes)) * Area(Head(boxes)) + WeightedY(Tail(boxes))

\* (variant: a box as large as the largest so far replaces it)
IsLargerOrEqual(area, max_area) == area >= max_area

\* the 'largest box' bookkeeping of one loop iteration: TRUE iff the box
\* replaces the largest box recorded so far
IsLarger(area, max_area) == area > max_area

\* largest_box after the loop; <<>> stands for None
RECURSIVE LargestFrom(_, _, _)
LargestFrom(boxes, max_area, largest_box) ==
    IF boxes = <<>> THEN largest_box
    ELSE IF IsLarger(Area(Head(boxes)), max_area)
         THEN LargestFrom(Tail(boxes), Area(Head(boxes)), Head(boxes))
         ELSE LargestFrom(Tail(boxes), max_area, largest_box)

LargestBox(boxes) == LargestFrom(boxes, 0, <<>>)

SeqMin(s) == CHOOSE v \in {s[k] : k \in DOMAIN s} : \A k \in DOMAIN s : v <= s[k]

SeqMax(s) == CHOOSE v \in {s[k] : k \in DOMAIN s} : \A k \in DOMAIN s : v >= s[k]

\* (variant: the quotient rounded to the nearest integer instead of truncated)
CentroidRounded(weighted, total_area) == (2 * weighted + total_area) \div (2 * total_area)

\* the weighted-average centre, int(weighted / total_area)
Centroid(weighted, total_area) == TruncDiv(weighted, total_area)

\* the source line of the return statement calculate_region_of_interest takes
ReturnLine(motion_boxes) ==
    IF motion_boxes = <<>> THEN 23
    ELSE IF TotalArea(motion_boxes) > 0 THEN 64
    ELSE IF LargestBox(motion_boxes) # <<>> THEN 69
    ELSE 73

CalculateRegionOfInterest(motion_boxes, frame_shape) ==
    LET height == frame_shape[1]
        width == frame_shape[2]
        n == Len(motion_boxes)
        largest_box == LargestBox(motion_boxes)
    IN  IF motion_boxes = <<>> THEN <<width \div 2, height \div 2, 0, 0>>
        ELSE IF TotalArea(motion_boxes) > 0
        THEN LET min_x == SeqMin([k \in 1..n |-> motion_boxes[k][1]])
                 min_y == SeqMin([k \in 1..n |-> motion_boxes[k][2]])
                 max_x == SeqMax([k \in 1..n |-> motion_boxes[k][1] + motion_boxes[k][3]])
                 max_y == SeqMax([k \in 1..n |-> motion_boxes[k][2] + motion_boxes[k][4]])
             IN  <<Centroid(WeightedX(motion_boxes), TotalArea(motion_boxes)),
                   Centroid(WeightedY(motion_boxes), TotalArea(motion_boxes)),
                   max_x - min_x, max_y - min_y>>
        ELSE IF largest_box # <<>>
        THEN <<CenterX(largest_box), CenterY(largest_box), largest_box[3], largest_box[4]>>
        ELSE <<width \div 2, height \div 2, 0, 0>>

(***************************************************************************)
(* track_viewport: one loop iteration.                                     *)
(***************************************************************************)
\* (variant: the two weights exchanged)
SmoothSwapped(prev, target, f) ==
    FInt(FAdd(FMulInt(prev, f), FMulInt(target, FAdd(FOne, FNeg(f)))))

\* (variant: the sum rounded half up, int(... + 0.5), instead of truncated)
SmoothRounded(prev, target, f) ==
    FInt(FAdd(FAdd(FMulInt(prev, FAdd(FOne, FNeg(f))), FMulInt(target, f)),
              [neg |-> FALSE, mag |-> <<0, Limb \div 2, 0, 0>>]))

\* int(prev * (1 - smoothing_factor) + target * smoothing_factor)
Smooth(prev, target, f) ==
    FInt(FAdd(FMulInt(prev, FAdd(FOne, FNeg(f))), FMulInt(target, f)))

\* max(min_x, min(max_x, smooth)) with min_x = viewport // 2,
\* max_x = frame - viewport // 2
ClampMax(frame_len, viewport_len) == frame_len - viewport_len \div 2

\* (variant: min and max applied in the other order)
ConstrainMinLast(smooth, frame_len, viewport_len) ==
    Min2(ClampMax(frame_len, viewport_len), Max2(viewport_len \div 2, smooth))

Constrain(smooth, frame_len, viewport_len) ==
    Max2(viewport_len \div 2, Min2(ClampMax(frame_len, viewport_len), smooth))

(***************************************************************************)
(* The calls the model makes.                                              *)
(***************************************************************************)
SeqsUpTo(S, n) == UNION {[1..k -> S] : k \in 0..n}

Repeat(v, n) == [k \in 1..n |-> v]

Dims == MinDim..MaxDim

\* frame shapes <<height, width>>; every frame of a sequence has the same shape
SmallShapes == {<<h, w>> : h \in Dims, w \in Dims} \ {<<h, w>> \in Dims \X Dims : h > w \/ w > h + 1}

\* a viewport that fits with room to move, one that fits with little room,
\* one of exactly the frame's size and one larger than the frame
ViewportSizes(shape) ==
    {<<2, 2>>, <<4, 4>>, <<shape[2], shape[1]>>, <<shape[2] + 2, shape[1] + 2>>}

TrackBoxes(shape) ==
    {<<0, 0, 2, 2>>, <<2, 2, 2, 2>>, <<shape[2] - 2, shape[1] - 2, 2, 2>>,
     <<0, shape[1] - 2, 2, 2>>}

BoxSets(shape) == {<<>>} \cup {<<b>> : b \in TrackBoxes(shape)}

TrackArgs(frames, motion_results, viewport_size, smoothing_factor) ==
    [fn |-> "track_viewport", frames |-> frames, motion_results |-> motion_results,
     viewport_size |-> viewport_size, smoothing_factor |-> smoothing_factor]

\* one box set per frame, any box sets, any smoothing factor
GeneralCalls ==
    {TrackArgs(Repeat(shape, Len(mr)), mr, vp, f) :
        shape \in SmallShapes, mr \in SeqsUpTo(UNION {BoxSets(sh) : sh \in SmallShapes}, MaxFrames),
        vp \in UNION {ViewportSizes(sh) : sh \in SmallShapes}, f \in SmoothingFactors}

\* the same box set in every frame
ConstantCalls ==
    {TrackArgs(Repeat(shape, n), Repeat(bs, n), vp, f) :
        shape \in SmallShapes, n \in (MaxFrames + 1)..MaxConstFrames,
        bs \in UNION {BoxSets(sh) : sh \in SmallShapes},
        vp \in {<<2, 2>>, <<4, 4>>}, f \in {F03, F05}}

\* frames and motion_results of different lengths
MismatchedCalls ==
    {TrackArgs(Repeat(<<MinDim, MaxDim>>, n), Repeat(<<>>, m), <<2, 2>>, F03) :
        n \in 0..MaxFrames, m \in 0..MaxFrames}

\* the end-to-end scenario: frame 640x480, viewport 200x150, the box
\* (100,100,50,50) in ten frames, smoothing factor 0.3
EndToEndCall ==
    TrackArgs(Repeat(<<480, 640>>, 10), Repeat(<<<<100, 100, 50, 50>>>>, 10), <<200, 150>>, F03)

WellFormedTrack(a) ==
    /\ \A k \in DOMAIN a.motion_results : k \in DOMAIN a.frames =>
          a.motion_results[k] \in BoxSets(a.frames[k])
    /\ a.frames # <<>> => a.viewport_size \in ViewportSizes(a.frames[1])

TrackCalls ==
    {a \in GeneralCalls \cup ConstantCalls : WellFormedTrack(a)}
        \cup MismatchedCalls \cup {EndToEndCall}

AggregatorBoxes == (0..MaxCoord) \X (0..MaxCoord) \X (0..MaxSide) \X (0..MaxSide)

AggregatorCalls ==
    {[fn |-> "calculate_region_of_interest", motion_boxes |-> bs, frame_shape |-> <<MinDim, MaxDim>>] :
        bs \in SeqsUpTo(AggregatorBoxes, 2)}

(***************************************************************************)
(* detect_motion.  A frame is a GridH x GridW grid of <<r, g, b>> bytes,   *)
(* indexed by <<row, col>> from 0.  The skimage steps are modelled in      *)
(* fixed point: luminance in units of 1/1000,  the Gaussian kernel         *)
(* (sigma 1, radius 4, edge mode 'nearest') by its weights rounded to      *)
(* hundredths, 40 24 5 1 0, applied along rows and then along columns.     *)
(***************************************************************************)
GridH == 3

GridW == 4

Pixels == {<<row, col>> : row \in 0..(GridH - 1), col \in 0..(GridW - 1)}

\* color.rgb2gray on a uint8 image
Rgb2Gray(frame) ==
    [p \in Pixels |-> (2125 * frame[p][1] + 7154 * frame[p][2] + 721 * frame[p][3]) \div 2550]

KernelWeight(k) == IF k = 0 THEN 40 ELSE IF k = 1 THEN 24 ELSE IF k = 2 THEN 5
                   ELSE IF k = 3 THEN 1 ELSE 0

ClampIndex(k, n) == Max2(0, Min2(n - 1, k))

RECURSIVE SumOver(_, _)
SumOver(S, f) ==
    IF S = {} THEN 0
    ELSE LET k == CHOOSE k \in S : TRUE IN f[k] + SumOver(S \ {k}, f)

\* filters.gaussian(gray, sigma=1.0)
Gaussian(gray) ==
    LET rows == [p \in Pixels |->
                    SumOver(-4..4, [k \in -4..4 |->
                        KernelWeight(Abs(k)) * gray[<<p[1], ClampIndex(p[2] + k, GridW)>>]])]
    IN  [p \in Pixels |->
            SumOver(-4..4, [k \in -4..4 |->
                KernelWeight(Abs(k)) * rows[<<ClampIndex(p[1] + k, GridH), p[2]>>]])]

\* luminance scale times the square of the kernel scale
BlurScale == 1000 * 100 * 100

\* frame_diff > threshold, for the threshold num/den
Exceeds(diff, threshold) == diff * threshold.den > threshold.num * BlurScale

\* binary_diff = np.abs(current_blurred - prev_blurred) > threshold
BinaryDiff(current_frame, prev_frame, threshold) ==
    LET current_blurred == Gaussian(Rgb2Gray(current_frame))
        prev_blurred == Gaussian(Rgb2Gray(prev_frame))
    IN  {p \in Pixels : Exceeds(Abs(current_blurred[p] - prev_blurred[p]), threshold)}

\* binary_dilation(mask, disk(3))
Dilate(mask) ==
    {p \in Pixels : \E q \in mask :
        (p[1] - q[1]) * (p[1] - q[1]) + (p[2] - q[2]) * (p[2] - q[2]) <= 9}

Adjacent(p, q, diagonal) ==
    /\ p # q
    /\ Abs(p[1] - q[1]) <= 1
    /\ Abs(p[2] - q[2]) <= 1
    /\ (diagonal \/ p[1] = q[1] \/ p[2] = q[2])

RECURSIVE Component(_, _, _)
Component(S, mask, diagonal) ==
    LET T == S \cup {q \in mask : \E p \in S : Adjacent(p, q, diagonal)}
    IN  IF T = S THEN S ELSE Component(T, mask, diagonal)

\* morphology.remove_small_objects(mask, min_size): components under
\* 4-connectivity with fewer than min_size pixels are removed
RemoveSmallObjects(mask, min_size) ==
    {p \in mask : ~(Cardinality(Component({p}, mask, FALSE)) < min_size)}

RasterFirst(S) ==
    CHOOSE p \in S : \A q \in S : p[1] < q[1] \/ (p[1] = q[1] /\ p[2] <= q[2])

\* measure.regionprops(measure.label(mask)): the components under
\* 8-connectivity, in label order
RECURSIVE Regions(_, _)
Regions(rest, mask) ==
    IF rest = {} THEN <<>>
    ELSE LET region == Component({RasterFirst(rest)}, mask, TRUE)
         IN  <<region>> \o Regions(rest \ region, mask)

SetMin(S) == CHOOSE v \in S : \A u \in S : v <= u

SetMax(S) == CHOOSE v \in S : \A u \in S : v >= u

\* region.bbox converted to (x, y, width, height)
BoundingBox(region) ==
    LET min_row == SetMin({p[1] : p \in region})
        min_col == SetMin({p[2] : p \in region})
        max_row == SetMax({p[1] : p \in region}) + 1
        max_col == SetMax({p[2] : p \in region}) + 1
    IN  <<min_col, min_row, max_col - min_col, max_row - min_row>>

MeetsArea(region, min_area) == Cardinality(region) >= min_area

RECURSIVE MotionBoxes(_, _)
MotionBoxes(regions, min_area) ==
    IF regions = <<>> THEN <<>>
    ELSE (IF MeetsArea(Head(regions), min_area) THEN <<BoundingBox(Head(regions))>> ELSE <<>>)
            \o MotionBoxes(Tail(regions), min_area)

\* frame_idx < 1 or frame_idx >= len(frames)
NoFramePair(frames, frame_idx) == frame_idx < 1 \/ frame_idx >= Len(frames)

\* the body of detect_motion after the frame pair is taken; frames is
\* indexed from 1 here, so frames[frame_idx] is the previous frame
DetectMotion(frames, frame_idx, threshold, min_area) ==
    LET binary_diff == BinaryDiff(frames[frame_idx + 1], frames[frame_idx], threshold)
        cleaned == RemoveSmallObjects(Dilate(binary_diff), min_area \div 10)
    IN  MotionBoxes(Regions(cleaned, cleaned), min_area)

Black == <<0, 0, 0>>

White == <<255, 255, 255>>

Grey == <<128, 128, 128>>

Lit(spots, colour) == [p \in Pixels |-> IF p \in spots THEN colour ELSE Black]

FramePool == {Lit({}, Black), Lit({<<0, 0>>}, White), Lit({<<0, 0>>}, Grey)}

MaxDetectFrames == 2

Thresholds ==
    {[num |-> -1, den |-> 10], [num |-> 0, den |-> 1], [num |-> 1, den |-> 100],
     [num |-> 1, den |-> 10], [num |-> 1, den |-> 1]}

MinAreas == {-5, 0, 4, 500}

DetectCalls ==
    {[fn |-> "detect_motion", frames |-> fr, frame_idx |-> idx, threshold |-> t, min_area |-> a] :
        fr \in SeqsUpTo(FramePool, MaxDetectFrames), idx \in -1..MaxDetectFrames,
        t \in Thresholds, a \in MinAreas}

(***************************************************************************)
(* State machine.                                                          *)
(***************************************************************************)
NoArgs == [fn |-> "none"]

Init ==
    /\ pc = "idle"
    /\ args = NoArgs
    /\ ret = <<>>
    /\ i = 0
    /\ prev_x = 0
    /\ prev_y = 0
    /\ viewport_positions = <<>>

CallAggregator ==
    /\ pc = "idle"
    /\ \E a \in AggregatorCalls : args' = a
    /\ pc' = "calculate_region_of_interest"
    /\ UNCHANGED <<ret, i, prev_x, prev_y, viewport_positions>>

ReturnRegionOfInterest ==
    /\ pc = "calculate_region_of_interest"
    /\ ret' = CalculateRegionOfInterest(args.motion_boxes, args.frame_shape)
    /\ pc' = "returned"
    /\ UNCHANGED <<args, i, prev_x, prev_y, viewport_positions>>

CallTrackViewport ==
    /\ pc = "idle"
    /\ \E a \in TrackCalls : args' = a
    /\ pc' = "track_viewport"
    /\ UNCHANGED <<ret, i, prev_x, prev_y, viewport_positions>>

\* if not frames: return []
TrackNoFrames ==
    /\ pc = "track_viewport"
    /\ args.frames = <<>>
    /\ ret' = <<>>
    /\ pc' = "returned"
    /\ UNCHANGED <<args, i, prev_x, prev_y, viewport_positions>>

\* prev_x, prev_y start at the centre of the first frame
TrackStart ==
    /\ pc = "track_viewport"
    /\ args.frames # <<>>
    /\ prev_x' = args.frames[1][2] \div 2
    /\ prev_y' = args.frames[1][1] \div 2
    /\ i' = 0
    /\ viewport_positions' = <<>>
    /\ pc' = "track_loop"
    /\ UNCHANGED <<args, ret>>

\* one iteration of the loop over enumerate(motion_results)
TrackStep ==
    /\ pc = "track_loop"
    /\ i < Len(args.motion_results)
    /\ i < Len(args.frames)
    /\ LET frame_height == args.frames[1][1]
           frame_width == args.frames[1][2]
           roi == CalculateRegionOfInterest(args.motion_results[i + 1], args.frames[i + 1])
           smooth_x == Smooth(prev_x, roi[1], args.smoothing_factor)
           smooth_y == Smooth(prev_y, roi[2], args.smoothing_factor)
           constrained_x == Constrain(smooth_x, frame_width, args.viewport_size[1])
           constrained_y == Constrain(smooth_y, frame_height, args.viewport_size[2])
       IN  /\ viewport_positions' = Append(viewport_positions, <<constrained_x, constrained_y>>)
           /\ prev_x' = constrained_x
           /\ prev_y' = constrained_y
    /\ i' = i + 1
    /\ UNCHANGED <<pc, args, ret>>

\* frames[i] with i >= len(frames): IndexError
TrackIndexError ==
    /\ pc = "track_loop"
    /\ i < Len(args.motion_results)
    /\ i >= Len(args.frames)
    /\ pc' = "raised"
    /\ UNCHANGED <<args, ret, i, prev_x, prev_y, viewport_positions>>

TrackReturn ==
    /\ pc = "track_loop"
    /\ i = Len(args.motion_results)
    /\ ret' = viewport_positions
    /\ pc' = "returned"
    /\ UNCHANGED <<args, i, prev_x, prev_y, viewport_positions>>

CallDetectMotion ==
    /\ pc = "idle"
    /\ \E a \in DetectCalls : args' = a
    /\ pc' = "detect_motion"
    /\ UNCHANGED <<ret, i, prev_x, prev_y, viewport_positions>>

\* fewer than two frames available: return []
DetectNoPair ==
    /\ pc = "detect_motion"
    /\ NoFramePair(args.frames, args.frame_idx)
    /\ ret' = <<>>
    /\ pc' = "returned"
    /\ UNCHANGED <<args, i, prev_x, prev_y, viewport_positions>>

DetectReturn ==
    /\ pc = "detect_motion"
    /\ ~NoFramePair(args.frames, args.frame_idx)
    /\ ret' = DetectMotion(args.frames, args.frame_idx, args.threshold, args.min_area)
    /\ pc' = "returned"
    /\ UNCHANGED <<args, i, prev_x, prev_y, viewport_positions>>

Next ==
    \/ CallDetectMotion
    \/ DetectNoPair
    \/ DetectReturn
    \/ CallAggregator
    \/ ReturnRegionOfInterest
    \/ CallTrackViewport
    \/ TrackNoFrames
    \/ TrackStart
    \/ TrackStep
    \/ TrackIndexError
    \/ TrackReturn

Spec == Init /\ [][Next]_vars

(***************************************************************************)
(* Vocabulary of the properties.                                           *)
(***************************************************************************)
Tracking == args.fn = "track_viewport" /\ args.frames # <<>>

Aggregating == args.fn = "calculate_region_of_interest"

Detecting == args.fn = "detect_motion"

FrameWidth == args.frames[1][2]

FrameHeight == args.frames[1][1]

LoX == args.viewport_size[1] \div 2

HiX == FrameWidth - args.viewport_size[1] \div 2

LoY == args.viewport_size[2] \div 2

HiY == FrameHeight - args.viewport_size[2] \div 2

FrameCentre == <<FrameWidth \div 2, FrameHeight \div 2>>

\* the ROI of frame k (frames counted from 1)
Target(k) == CalculateRegionOfInterest(args.motion_results[k], args.frames[k])

\* the position the smoothing of frame k starts from
PrevPos(k) == IF k = 1 THEN FrameCentre ELSE viewport_positions[k - 1]

Emitted == DOMAIN viewport_positions

Between(a, v, b) == Min2(a, b) <= v /\ v <= Max2(a, b)

Within(lo, v, hi) == lo <= v /\ v <= hi

ConstantRun ==
    \A k \in DOMAIN args.motion_results : args.motion_results[k] = args.motion_results[1]

ViewportFits ==
    args.viewport_size[1] <= FrameWidth /\ args.viewport_size[2] <= FrameHeight

StrictSmoothing == 0 < args.smoothing_factor.num /\ args.smoothing_factor.num < args.smoothing_factor.den

\* smoothingFactor in (0, 1]
ValidSmoothing(f) == 0 < f.num /\ f.num <= f.den

\* threshold in (0, 1)
ValidThreshold(t) == 0 < t.num /\ t.num < t.den

\* the constant target lies inside the clamp bounds
TargetInside ==
    /\ Within(LoX, Target(1)[1], HiX)
    /\ Within(LoY, Target(1)[2], HiY)

ConvergenceRun ==
    /\ Tracking
    /\ args.motion_results # <<>>
    /\ Len(args.motion_results) = Len(args.frames)
    /\ ConstantRun
    /\ ViewportFits
    /\ TargetInside
    /\ StrictSmoothing

\* a run is long enough on an axis when it has at least |start - target| + 2
\* frames: the coordinate moves by at least one pixel per frame until it stops
LongEnough(axis) == Len(viewport_positions) >= Abs(FrameCentre[axis] - Target(1)[axis]) + 2

Last == viewport_positions[Len(viewport_positions)]

\* the call returned the ROI of two boxes of equal positive area
EqualAreaPair ==
    /\ Aggregating
    /\ pc = "returned"
    /\ Len(args.motion_boxes) = 2
    /\ Area(args.motion_boxes[1]) > 0
    /\ Area(args.motion_boxes[1]) = Area(args.motion_boxes[2])

(***************************************************************************)
(* C1: every position track_viewport emits satisfies lo <= x <=            *)
(* max(lo, hi) with lo = viewportWidth // 2, hi = frameWidth -             *)
(* viewportWidth // 2, and the same for y; when lo > hi the coordinate is  *)
(* exactly lo.                                                             *)
(***************************************************************************)
C1_ClampedPositions ==
    Tracking =>
        \A k \in Emitted :
            /\ LoX <= viewport_positions[k][1]
            /\ viewport_positions[k][1] <= Max2(LoX, HiX)
            /\ LoY <= viewport_positions[k][2]
            /\ viewport_positions[k][2] <= Max2(LoY, HiY)
            /\ (LoX > HiX => viewport_positions[k][1] = LoX)
            /\ (LoY > HiY => viewport_positions[k][2] = LoY)

\* a call with inverted bounds on both axes has returned two positions, and
\* the smoothed value of the second lay outside the bounds
C1_Witness ==
    /\ Tracking
    /\ pc = "returned"
    /\ LoX > HiX
    /\ LoY > HiY
    /\ ValidSmoothing(args.smoothing_factor)
    /\ Len(ret) = 2
    /\ ret[2] = <<LoX, LoY>>
    /\ Smooth(ret[1][1], Target(2)[1], args.smoothing_factor) < HiX

(***************************************************************************)
(* C2: with a viewport of exactly the frame's size every emitted position  *)
(* is the frame centre (frameWidth // 2, frameHeight // 2).                *)
(***************************************************************************)
C2_FrameSizedViewportStaysCentred ==
    (Tracking /\ args.viewport_size = <<FrameWidth, FrameHeight>>) =>
        \A k \in Emitted : viewport_positions[k] = FrameCentre

(***************************************************************************)
(* C3: with the same box set in every frame, a viewport no larger than the *)
(* frame and 0 < smoothingFactor < 1, every emitted coordinate lies        *)
(* between the previous position and the target, inclusive; in the         *)
(* end-to-end scenario x and y never increase and never drop below 125.    *)
(***************************************************************************)
C3_NoOvershoot ==
    /\ (Tracking /\ ConstantRun /\ ViewportFits /\ StrictSmoothing) =>
          \A k \in Emitted :
              /\ Between(PrevPos(k)[1], viewport_positions[k][1], Target(k)[1])
              /\ Between(PrevPos(k)[2], viewport_positions[k][2], Target(k)[2])
    /\ args = EndToEndCall =>
          \A k \in Emitted :
              /\ viewport_positions[k][1] <= PrevPos(k)[1]
              /\ viewport_positions[k][2] <= PrevPos(k)[2]
              /\ viewport_positions[k][1] >= 125
              /\ viewport_positions[k][2] >= 125

(***************************************************************************)
(* C4: with a constant target inside the clamp bounds and                  *)
(* 0 < smoothingFactor < 1, over a long enough run the emitted position    *)
(* eventually equals the target centre and stays there, from above or      *)
(* below.                                                                  *)
(***************************************************************************)
C4_ReachesTarget ==
    ConvergenceRun =>
        \A axis \in {1, 2} : LongEnough(axis) => Last[axis] = Target(1)[axis]

\* C4 as amended: over a long enough run the coordinate stops moving, at
\* the target or less than 1/smoothingFactor pixels below it
C4_StopsAtOrBelowTarget ==
    ConvergenceRun =>
        \A axis \in {1, 2} : LongEnough(axis) =>
            /\ Last[axis] = viewport_positions[Len(viewport_positions) - 1][axis]
            /\ 0 <= Target(1)[axis] - Last[axis]
            /\ (Target(1)[axis] - Last[axis]) * args.smoothing_factor.num
                  < args.smoothing_factor.den

\* a long run that started above the target on x has come down to it, and
\* one that started below the target on y has stopped short of it
C4_Witness ==
    /\ ConvergenceRun
    /\ pc = "returned"
    /\ LongEnough(1)
    /\ LongEnough(2)
    /\ FrameCentre[1] > Target(1)[1]
    /\ Last[1] = Target(1)[1]
    /\ FrameCentre[2] < Target(1)[2]
    /\ Last[2] < Target(1)[2]

(***************************************************************************)
(* C5: with smoothingFactor = 1 the position emitted for frame i equals    *)
(* the ROI centre of box set i, whatever the previous position.            *)
(***************************************************************************)
C5_SnapsToTarget ==
    (Tracking /\ args.smoothing_factor = F10) =>
        \A k \in Emitted : viewport_positions[k] = <<Target(k)[1], Target(k)[2]>>

\* C5 as amended: with smoothingFactor = 1 the position is the ROI centre
\* clamped to the viewport bounds, hence the ROI centre itself whenever that
\* lies within the bounds
C5_SnapsToClampedTarget ==
    (Tracking /\ args.smoothing_factor = F10) =>
        \A k \in Emitted :
            /\ viewport_positions[k] =
                  <<Max2(LoX, Min2(HiX, Target(k)[1])), Max2(LoY, Min2(HiY, Target(k)[2]))>>
            /\ (Within(LoX, Target(k)[1], HiX) /\ Within(LoY, Target(k)[2], HiY))
                  => viewport_positions[k] = <<Target(k)[1], Target(k)[2]>>

\* two frames with different targets: the first inside the bounds and
\* reached at once, the second outside them and cut off at the bound
C5_Witness ==
    /\ Tracking
    /\ args.smoothing_factor = F10
    /\ pc = "returned"
    /\ Len(ret) = 2
    /\ ret[1] = <<Target(1)[1], Target(1)[2]>>
    /\ ret[1] # FrameCentre
    /\ Target(2)[1] > HiX
    /\ HiX >= LoX
    /\ ret[2][1] = HiX

(***************************************************************************)
(* C6: track_viewport returns one position per input frame, in frame       *)
(* order: the returned list is as long as the frame list, position i is    *)
(* computed from box set i and the position of frame i-1 (the frame centre *)
(* for the first), and an empty frame list yields an empty result.         *)
(***************************************************************************)
C6_OnePositionPerFrame ==
    (args.fn = "track_viewport" /\ pc = "returned") =>
        /\ Len(ret) = Len(args.frames)
        /\ \A k \in DOMAIN ret :
              ret[k] = <<Constrain(Smooth(PrevPos(k)[1], Target(k)[1], args.smoothing_factor),
                                   FrameWidth, args.viewport_size[1]),
                         Constrain(Smooth(PrevPos(k)[2], Target(k)[2], args.smoothing_factor),
                                   FrameHeight, args.viewport_size[2])>>
        /\ (args.frames = <<>> => ret = <<>>)

(***************************************************************************)
(* C7: invalid parameters fail fast: track_viewport with a smoothingFactor *)
(* outside (0, 1], and detect_motion with a non-positive minArea or a      *)
(* threshold outside (0, 1), never return a result.                        *)
(***************************************************************************)
C7_InvalidParametersRejected ==
    /\ (args.fn = "track_viewport" /\ ~ValidSmoothing(args.smoothing_factor))
          => pc # "returned"
    /\ (Detecting /\ (args.min_area <= 0 \/ ~ValidThreshold(args.threshold)))
          => pc # "returned"

(***************************************************************************)
(* C8: for a box list of total area zero (empty, or every box with a zero  *)
(* side) calculate_region_of_interest returns the frame centre with zero   *)
(* extent, and the 'largest box' fallback return is never taken.           *)
(***************************************************************************)
C8_ZeroAreaGivesFrameCentre ==
    (Aggregating /\ pc = "returned" /\ TotalArea(args.motion_boxes) = 0) =>
        /\ ret = <<args.frame_shape[2] \div 2, args.frame_shape[1] \div 2, 0, 0>>
        /\ ReturnLine(args.motion_boxes) \in {23, 73}
        /\ LargestBox(args.motion_boxes) = <<>>

\* two boxes, one with zero width and one with zero height, away from the
\* frame centre
C8_Witness ==
    /\ Aggregating
    /\ pc = "returned"
    /\ Len(args.motion_boxes) = 2
    /\ args.motion_boxes[1][3] = 0
    /\ args.motion_boxes[1][4] > 0
    /\ args.motion_boxes[2][4] = 0
    /\ args.motion_boxes[2][3] > 0
    /\ ReturnLine(args.motion_boxes) = 73
    /\ ret = <<args.frame_shape[2] \div 2, args.frame_shape[1] \div 2, 0, 0>>

(***************************************************************************)
(* C9: for two boxes of equal positive area calculate_region_of_interest   *)
(* returns a centroid exactly at the midpoint of the two box centres, on   *)
(* both axes.                                                              *)
(***************************************************************************)
C9_ExactMidpoint ==
    EqualAreaPair =>
        /\ 2 * ret[1] = CenterX(args.motion_boxes[1]) + CenterX(args.motion_boxes[2])
        /\ 2 * ret[2] = CenterY(args.motion_boxes[1]) + CenterY(args.motion_boxes[2])

\* C9 as amended: the centroid is the midpoint of the two box centres
\* truncated to integer pixels, the exact midpoint when the sum of the two
\* centre coordinates is even
C9_TruncatedMidpoint ==
    EqualAreaPair =>
        /\ ret[1] = (CenterX(args.motion_boxes[1]) + CenterX(args.motion_boxes[2])) \div 2
        /\ ret[2] = (CenterY(args.motion_boxes[1]) + CenterY(args.motion_boxes[2])) \div 2
        /\ ((CenterX(args.motion_boxes[1]) + CenterX(args.motion_boxes[2])) % 2 = 0
               => 2 * ret[1] = CenterX(args.motion_boxes[1]) + CenterX(args.motion_boxes[2]))
        /\ ((CenterY(args.motion_boxes[1]) + CenterY(args.motion_boxes[2])) % 2 = 0
               => 2 * ret[2] = CenterY(args.motion_boxes[1]) + CenterY(args.motion_boxes[2]))

\* two boxes of equal area and different shape whose centres are an odd
\* distance apart on x and an even distance apart on y
C9_Witness ==
    /\ EqualAreaPair
    /\ args.motion_boxes[1][3] # args.motion_boxes[2][3]
    /\ (CenterX(args.motion_boxes[1]) + CenterX(args.motion_boxes[2])) % 2 = 1
    /\ CenterY(args.motion_boxes[1]) # CenterY(args.motion_boxes[2])
    /\ 2 * ret[2] = CenterY(args.motion_boxes[1]) + CenterY(args.motion_boxes[2])

(***************************************************************************)
(* C10: for two identical consecutive frames detect_motion returns an      *)
(* empty box list, regardless of the threshold and of minArea.             *)
(***************************************************************************)
C10_IdenticalFramesNoMotion ==
    (Detecting /\ pc = "returned" /\ ~NoFramePair(args.frames, args.frame_idx)
        /\ args.frames[args.frame_idx] = args.frames[args.frame_idx + 1])
    => ret = <<>>

====
